---- MODULE Spec2Model ----
(***************************************************************************)
(* Model of FrontEnd/Python/Visualization/npvcube/npvtest.py: a script     *)
(* that loads an NPV cube from cube_full.csv, creates a figure with one    *)
(* 3-D axes, renders the density of trade '833397AI' onto that axes and    *)
(* shows the figure.                                                       *)
(*                                                                         *)
(* The state is the interpreter's position in the script, the module-level *)
(* names the script binds, the objects the plotting library holds, the     *)
(* file system and the log of the calls made to the collaborators.         *)
(* npvlib.NpvCube is not part of the modelled file; its two entry points   *)
(* are modelled from the documented contract (NpvCube, plot_density).      *)
(***************************************************************************)
EXTENDS Naturals, Sequences, FiniteSets

\* ------------------------------------------------------------------ bounds
\* Largest number of trades a cube file may hold.
MaxTrades == 3

\* --------------------------------------------------------------- constants
\* The literals of the script.
CsvFileName == "cube_full.csv"
TradeKey == "833397AI"
\* 0.7, the third argument of plot_density, in tenths.
AlphaTenths == 7
SubplotSpec == 111
Projection == "3d"

\* Trade identifiers a cube file may contain.
TradeUniverse == {"833397AI", "833397AJ", "912810RZ", "037833AK"}

\* The statements of the script, by line, and the line after the last one.
FirstLine == 9
EndOfScript == 17
\* Variants of the control flow: line 13 is skipped; lines 13-14 come after 15.
NextLineSkipFigure(l) == IF l = 11 THEN 14 ELSE l + 1
NextLineRenderFirst(l) ==
    IF l = 11 THEN 15 ELSE IF l = 15 THEN 13 ELSE IF l = 14 THEN 16 ELSE l + 1
NextLine(l) == IF l = 11 THEN 13 ELSE l + 1

\* Value of a name that is not bound yet.
Unbound == "<unbound>"
NoCube == [loaded |-> FALSE, trades |-> {}]

VARIABLES
    pc,          \* line of the statement to execute (or that raised)
    status,      \* "running", "blocked" (inside plt.show), "exited", "failed"
    csv_file,    \* module-level name csv_file
    npv,         \* module-level name npv
    trade,       \* module-level name trade
    fig,         \* module-level name fig: a figure number, 0 when unbound
    ax,          \* module-level name ax: an index into axes, 0 when unbound
    figures,     \* figure numbers the plotting library holds
    axes,        \* the axes objects created, in order of creation
    shown,       \* figures displayed in the viewer
    windowOpen,  \* the viewer window is open
    error,       \* exception that reached the process boundary, or "None"
    exitCode,    \* exit code of the process, 2 while it has not exited
    fs,          \* the file system: path -> content, for the existing files
    calls        \* log of the calls made to the collaborators

vars == <<pc, status, csv_file, npv, trade, fig, ax, figures, axes, shown,
          windowOpen, error, exitCode, fs, calls>>

\* ------------------------------------------------------------ environment
MalformedCsv == [wellFormed |-> FALSE, trades |-> {}]
CubeFiles == {[wellFormed |-> TRUE, trades |-> S] :
                 S \in {T \in SUBSET TradeUniverse : Cardinality(T) <= MaxTrades}}
NoFiles == [p \in {} |-> MalformedCsv]
FileSystems == {NoFiles} \cup
               {[p \in {CsvFileName} |-> c] : c \in CubeFiles \cup {MalformedCsv}}

\* ----------------------------------------------------------- collaborators
\* NpvCube(csv_file): read the file at path and build the cube.
NpvCube(files, path) ==
    IF path \notin DOMAIN files
    THEN [raised |-> "FileNotFoundError", cube |-> NoCube]
    ELSE IF ~files[path].wellFormed
    THEN [raised |-> "ParserError", cube |-> NoCube]
    ELSE [raised |-> "None",
          cube |-> [loaded |-> TRUE, trades |-> files[path].trades]]

\* npv.plot_density(trade, ax, alpha): what is drawn onto the surface.
plot_density(cube, key, alpha) ==
    IF key \notin cube.trades
    THEN [raised |-> "KeyError", drawn |-> {}]
    ELSE [raised |-> "None", drawn |-> {[trade |-> key, alpha |-> alpha]}]

\* ------------------------------------------------------------------ script
Call(line, fn, args, raised) ==
    [line |-> line, fn |-> fn, args |-> args, raised |-> raised]

\* Variant: the exception is swallowed and the script goes on.
SwallowedException(exc) ==
    /\ pc' = NextLine(pc)
    /\ UNCHANGED <<status, error, exitCode>>

\* An exception raised by the statement at pc: nothing catches it, the
\* interpreter reports it and the process exits with code 1.
UncaughtException(exc) ==
    /\ status' = "failed"
    /\ error' = exc
    /\ exitCode' = 1
    /\ pc' = pc

Advance ==
    /\ pc' = NextLine(pc)
    /\ UNCHANGED <<status, error, exitCode>>

Init ==
    /\ pc = FirstLine
    /\ status = "running"
    /\ csv_file = Unbound
    /\ npv = NoCube
    /\ trade = Unbound
    /\ fig = 0
    /\ ax = 0
    /\ figures = {}
    /\ axes = <<>>
    /\ shown = {}
    /\ windowOpen = FALSE
    /\ error = "None"
    /\ exitCode = 2
    /\ fs \in FileSystems
    /\ calls = <<>>

\* line 9: csv_file = 'cube_full.csv'
AssignCsvFile ==
    /\ status = "running" /\ pc = 9
    /\ csv_file' = CsvFileName
    /\ Advance
    /\ UNCHANGED <<npv, trade, fig, ax, figures, axes, shown, windowOpen, fs, calls>>

\* Variant of line 10: a failed load is caught and an empty cube is used.
LoadCubeCaught ==
    /\ status = "running" /\ pc = 10
    /\ LET r == NpvCube(fs, csv_file) IN
         /\ calls' = Append(calls, Call(10, "NpvCube", <<csv_file>>, r.raised))
         /\ npv' = r.cube
         /\ Advance
    /\ UNCHANGED <<csv_file, trade, fig, ax, figures, axes, shown, windowOpen, fs>>

\* Variant of line 10: the cube is constructed a second time.
LoadCubeTwice ==
    /\ status = "running" /\ pc = 10
    /\ LET r == NpvCube(fs, csv_file) IN
         /\ calls' = Append(Append(calls, Call(10, "NpvCube", <<csv_file>>, r.raised)),
                            Call(10, "NpvCube", <<csv_file>>, r.raised))
         /\ IF r.raised = "None"
            THEN npv' = r.cube /\ Advance
            ELSE UNCHANGED npv /\ UncaughtException(r.raised)
    /\ UNCHANGED <<csv_file, trade, fig, ax, figures, axes, shown, windowOpen, fs>>

\* line 10: npv = NpvCube(csv_file)
LoadCube ==
    /\ status = "running" /\ pc = 10
    /\ LET r == NpvCube(fs, csv_file) IN
         /\ calls' = Append(calls, Call(10, "NpvCube", <<csv_file>>, r.raised))
         /\ IF r.raised = "None"
            THEN npv' = r.cube /\ Advance
            ELSE UNCHANGED npv /\ UncaughtException(r.raised)
    /\ UNCHANGED <<csv_file, trade, fig, ax, figures, axes, shown, windowOpen, fs>>

\* Variant of line 11: another record key is selected.
AssignTradeOtherKey ==
    /\ status = "running" /\ pc = 11
    /\ trade' = "833397AJ"
    /\ Advance
    /\ UNCHANGED <<csv_file, npv, fig, ax, figures, axes, shown, windowOpen, fs, calls>>

\* line 11: trade = '833397AI'
AssignTrade ==
    /\ status = "running" /\ pc = 11
    /\ trade' = TradeKey
    /\ Advance
    /\ UNCHANGED <<csv_file, npv, fig, ax, figures, axes, shown, windowOpen, fs, calls>>

\* line 13: fig = plt.figure()
CreateFigure ==
    /\ status = "running" /\ pc = 13
    /\ calls' = Append(calls, Call(13, "figure", <<>>, "None"))
    /\ LET n == Cardinality(figures) + 1 IN
         /\ figures' = figures \cup {n}
         /\ fig' = n
    /\ Advance
    /\ UNCHANGED <<csv_file, npv, trade, ax, axes, shown, windowOpen, fs>>

\* line 14: ax = fig.add_subplot(111, projection='3d')
AddSubplot ==
    /\ status = "running" /\ pc = 14
    /\ calls' = Append(calls, Call(14, "add_subplot", <<fig, SubplotSpec, Projection>>, "None"))
    /\ axes' = Append(axes, [figure |-> fig, projection |-> Projection, drawn |-> {}])
    /\ ax' = Len(axes) + 1
    /\ Advance
    /\ UNCHANGED <<csv_file, npv, trade, fig, figures, shown, windowOpen, fs>>

\* Variant of line 15: a failed render is caught and the script goes on.
PlotDensityCaught ==
    /\ status = "running" /\ pc = 15
    /\ LET r == plot_density(npv, trade, AlphaTenths) IN
         /\ calls' = Append(calls, Call(15, "plot_density",
                                        <<trade, ax, AlphaTenths>>, r.raised))
         /\ axes' = [axes EXCEPT ![ax].drawn = @ \cup r.drawn]
         /\ Advance
    /\ UNCHANGED <<csv_file, npv, trade, fig, ax, figures, shown, windowOpen, fs>>

\* Variant of line 15: the density is rendered onto a second, new surface.
PlotDensityOnNewAxes ==
    /\ status = "running" /\ pc = 15
    /\ LET r == plot_density(npv, trade, AlphaTenths) IN
         /\ calls' = Append(calls, Call(15, "plot_density",
                                        <<trade, Len(axes) + 1, AlphaTenths>>, r.raised))
         /\ IF r.raised = "None"
            THEN /\ axes' = Append(axes, [figure |-> fig, projection |-> Projection,
                                          drawn |-> r.drawn])
                 /\ Advance
            ELSE /\ UNCHANGED axes
                 /\ UncaughtException(r.raised)
    /\ UNCHANGED <<csv_file, npv, trade, fig, ax, figures, shown, windowOpen, fs>>

\* line 15: npv.plot_density(trade, ax, 0.7)
PlotDensity ==
    /\ status = "running" /\ pc = 15
    /\ LET r == plot_density(npv, trade, AlphaTenths) IN
         /\ calls' = Append(calls, Call(15, "plot_density",
                                        <<trade, ax, AlphaTenths>>, r.raised))
         /\ IF r.raised = "None"
            THEN /\ axes' = [axes EXCEPT ![ax].drawn = @ \cup r.drawn]
                 /\ Advance
            ELSE /\ UNCHANGED axes
                 /\ UncaughtException(r.raised)
    /\ UNCHANGED <<csv_file, npv, trade, fig, ax, figures, shown, windowOpen, fs>>

\* Variant of line 16: the figure is shown without blocking, the script ends.
ShowNonBlocking ==
    /\ status = "running" /\ pc = 16
    /\ calls' = Append(calls, Call(16, "show", <<>>, "None"))
    /\ shown' = figures
    /\ windowOpen' = TRUE
    /\ status' = "exited"
    /\ pc' = EndOfScript
    /\ exitCode' = 0
    /\ UNCHANGED error
    /\ UNCHANGED <<csv_file, npv, trade, fig, ax, figures, axes, fs>>

\* Variant of line 16: the figure is also saved to a file.
ShowSavesFigure ==
    /\ status = "running" /\ pc = 16
    /\ calls' = Append(calls, Call(16, "show", <<>>, "None"))
    /\ shown' = figures
    /\ windowOpen' = TRUE
    /\ status' = "blocked"
    /\ fs' = [p \in DOMAIN fs \cup {"density.png"} |->
                IF p \in DOMAIN fs THEN fs[p] ELSE MalformedCsv]
    /\ UNCHANGED <<pc, error, exitCode>>
    /\ UNCHANGED <<csv_file, npv, trade, fig, ax, figures, axes>>

\* line 16: plt.show() is entered: every figure is displayed and the call
\* blocks in the viewer's event loop.
Show ==
    /\ status = "running" /\ pc = 16
    /\ calls' = Append(calls, Call(16, "show", <<>>, "None"))
    /\ shown' = figures
    /\ windowOpen' = TRUE
    /\ status' = "blocked"
    /\ UNCHANGED <<pc, error, exitCode>>
    /\ UNCHANGED <<csv_file, npv, trade, fig, ax, figures, axes, fs>>

\* The user closes the viewer window.
CloseWindow ==
    /\ windowOpen
    /\ windowOpen' = FALSE
    /\ UNCHANGED <<pc, status, csv_file, npv, trade, fig, ax, figures, axes,
                   shown, error, exitCode, fs, calls>>

\* line 16, continued: plt.show() returns once no window is open; it was the
\* last statement, so the process exits with code 0.
ShowReturns ==
    /\ status = "blocked" /\ pc = 16
    /\ ~windowOpen
    /\ pc' = EndOfScript
    /\ status' = "exited"
    /\ exitCode' = 0
    /\ UNCHANGED <<csv_file, npv, trade, fig, ax, figures, axes, shown,
                   windowOpen, error, fs, calls>>

\* The statements the interpreter executes, as opposed to what the user does.
ScriptStep ==
    \/ AssignCsvFile
    \/ LoadCube
    \/ AssignTrade
    \/ CreateFigure
    \/ AddSubplot
    \/ PlotDensity
    \/ Show
    \/ ShowReturns

Next ==
    \/ AssignCsvFile
    \/ LoadCube
    \/ AssignTrade
    \/ CreateFigure
    \/ AddSubplot
    \/ PlotDensity
    \/ Show
    \/ CloseWindow
    \/ ShowReturns

Spec == Init /\ [][Next]_vars

\* The interpreter never stops between two statements; the user may leave
\* the window open for ever.
LiveSpec == Init /\ [][Next]_vars /\ WF_vars(ScriptStep)

\* A call into the plotting library (lines 13, 14, 16) raises, e.g. because
\* no display backend is available.
PlottingCallRaises ==
    /\ status = "running" /\ pc \in {13, 14, 16}
    /\ calls' = Append(calls, Call(pc, IF pc = 13 THEN "figure"
                                       ELSE IF pc = 14 THEN "add_subplot"
                                       ELSE "show", <<>>, "RuntimeError"))
    /\ UncaughtException("RuntimeError")
    /\ UNCHANGED <<csv_file, npv, trade, fig, ax, figures, axes, shown,
                   windowOpen, fs>>

NextFaulty ==
    \/ AssignCsvFile
    \/ LoadCube
    \/ AssignTrade
    \/ CreateFigure
    \/ AddSubplot
    \/ PlotDensity
    \/ Show
    \/ CloseWindow
    \/ ShowReturns
    \/ PlottingCallRaises

FaultySpec == Init /\ [][NextFaulty]_vars


\* ------------------------------------------------------------- properties
\* The situations the input file can be in (fs never changes, see C9).
FileMissing == CsvFileName \notin DOMAIN fs
FileValid == CsvFileName \in DOMAIN fs /\ fs[CsvFileName].wellFormed
KeyPresent == FileValid /\ TradeKey \in fs[CsvFileName].trades
KeyAbsent == FileValid /\ TradeKey \notin fs[CsvFileName].trades

CallsTo(fn) == Cardinality({i \in DOMAIN calls : calls[i].fn = fn})
Rendered == ax \in DOMAIN axes /\ axes[ax].drawn # {}
ScriptCalls == <<"NpvCube", "figure", "add_subplot", "plot_density", "show">>

\* C1: with a present, valid file that holds trade '833397AI', no run ever
\* enters an error state, and every run gets through load, surface creation
\* and render to the display step, where its figure is shown.
FigureDisplayed ==
    /\ status = "blocked" /\ windowOpen
    /\ npv.loaded
    /\ Rendered
    /\ fig \in shown /\ axes[ax].figure = fig
C1_ValidRunReachesDisplay ==
    /\ [](KeyPresent => (error = "None" /\ status # "failed"
                          /\ \A i \in DOMAIN calls : calls[i].raised = "None"))
    /\ ((KeyPresent /\ pc = FirstLine) ~> FigureDisplayed)
C1_Witness == KeyPresent /\ FigureDisplayed

\* C2: with the file missing, the run ends in a FileNotFoundError raised by
\* the load step at line 10, and no figure is ever created, plot_density is
\* never called and show is never called.
LoadFailedNotFound ==
    /\ status = "failed" /\ error = "FileNotFoundError" /\ pc = 10
    /\ calls = <<Call(10, "NpvCube", <<CsvFileName>>, "FileNotFoundError")>>
C2_MissingFileFails ==
    /\ [](FileMissing => /\ figures = {} /\ fig = 0
                         /\ CallsTo("figure") = 0
                         /\ CallsTo("plot_density") = 0
                         /\ CallsTo("show") = 0
                         /\ shown = {} /\ ~windowOpen)
    /\ (FileMissing ~> LoadFailedNotFound)
C2_Witness == FileMissing /\ LoadFailedNotFound

\* C3: with a cube that loads but does not hold the record key passed to
\* plot_density, the run ends in a KeyError raised inside the render call at
\* line 15, and show is never reached.
RenderFailedLookup ==
    /\ status = "failed" /\ error = "KeyError" /\ pc = 15
    /\ calls # <<>>
    /\ calls[Len(calls)] = Call(15, "plot_density", <<TradeKey, ax, AlphaTenths>>, "KeyError")
C3_AbsentKeyFails ==
    /\ [](KeyAbsent => (CallsTo("show") = 0 /\ shown = {} /\ ~windowOpen
                         /\ status \notin {"blocked", "exited"}))
    /\ (KeyAbsent ~> RenderFailedLookup)
C3_Witness == KeyAbsent /\ npv.loaded /\ RenderFailedLookup

\* C4: an exception raised by any step (load, figure or axes creation,
\* render, display) is not caught or retried: it is the last call of the
\* run, made once, no statement of a later line has executed, the process is
\* in the failed state with exit code 1, and nothing happens afterwards.
C4_FailurePropagates ==
    /\ [](\A i \in DOMAIN calls :
            calls[i].raised # "None" =>
                /\ i = Len(calls)
                /\ status = "failed" /\ error = calls[i].raised
                /\ exitCode = 1
                /\ pc = calls[i].line
                /\ \A j \in DOMAIN calls : j # i => calls[j].line < calls[i].line)
    /\ []((status = "failed" \/ error # "None") =>
            calls # <<>> /\ calls[Len(calls)].raised # "None")
    /\ [][status # "failed"]_vars
C4_Witness ==
    /\ status = "failed" /\ error = "RuntimeError" /\ pc = 14
    /\ fig # 0 /\ axes = <<>>

\* C5: plt.show() is the only blocking point and the last statement: while
\* the window is open the process is blocked in it; the process exits, with
\* code 0, only after the window was shown and closed, and once the window
\* is closed it eventually does.
C5_ShowBlocksUntilClosed ==
    /\ [](status = "blocked" => (pc = 16 /\ NextLine(pc) = EndOfScript))
    /\ [](windowOpen => status = "blocked")
    /\ [](status = "exited" => (~windowOpen /\ shown # {} /\ exitCode = 0
                                  /\ pc = EndOfScript))
    /\ [][(windowOpen /\ ~windowOpen') => (status = "blocked" /\ status' = "blocked")]_vars
    /\ ((status = "blocked" /\ ~windowOpen) ~> status = "exited")
C5_Witness == status = "exited" /\ CallsTo("show") = 1

\* C6: the statements run in one fixed linear order: load, figure, axes,
\* render, show; each call is made only after every earlier one returned,
\* and control never branches or goes back.
C6_LinearOrder ==
    /\ [](/\ Len(calls) <= Len(ScriptCalls)
          /\ \A i \in DOMAIN calls :
                /\ calls[i].fn = ScriptCalls[i]
                /\ i < Len(calls) => calls[i].raised = "None"
                /\ \A j \in DOMAIN calls : i < j => calls[i].line < calls[j].line)
    /\ [](fig # 0 => npv.loaded)
    /\ [](ax # 0 => fig # 0)
    /\ [](CallsTo("plot_density") > 0 => ax # 0)
    /\ [](CallsTo("show") > 0 => Rendered)
    /\ [][pc' = pc \/ (pc' = NextLine(pc) /\ pc' > pc)]_vars
C6_Witness == Len(calls) = 5 /\ calls[5].fn = "show"

\* C7: the cube is constructed at most once and plot_density is called at
\* most once; in a run that exits successfully each happened exactly once
\* and the window has been shown and closed.
C7_LoadedOnceUsedOnce ==
    /\ CallsTo("NpvCube") <= 1
    /\ CallsTo("plot_density") <= 1
    /\ (status = "exited" \/ exitCode = 0) =>
          /\ CallsTo("NpvCube") = 1
          /\ CallsTo("plot_density") = 1
          /\ shown # {} /\ ~windowOpen
C7_Witness == status = "exited" /\ exitCode = 0 /\ CallsTo("plot_density") = 1

\* C8: at most one surface is created, it has a 3-D projection and belongs
\* to the figure of the run; the render call gets exactly the arguments
\* ('833397AI', that surface, 0.7) and draws onto that surface, which belongs
\* to the figure that is displayed.
C8_OneSurfacePassedByReference ==
    /\ Len(axes) <= 1
    /\ Cardinality(figures) <= 1
    /\ ax # 0 => (Len(axes) = 1 /\ ax = 1 /\ axes[ax].projection = "3d"
                   /\ axes[ax].figure = fig /\ fig \in figures)
    /\ \A i \in DOMAIN calls :
          calls[i].fn = "plot_density" =>
              /\ Len(calls[i].args) = 3
              /\ calls[i].args = <<TradeKey, ax, AlphaTenths>>
              /\ ax # 0
              /\ calls[i].raised = "None" =>
                     axes[ax].drawn = {[trade |-> TradeKey, alpha |-> AlphaTenths]}
    /\ shown # {} => (shown = {fig} /\ Rendered /\ axes[ax].figure \in shown)
C8_Witness == status = "blocked" /\ Rendered /\ shown = {fig}

\* C9: the only inputs are the fixed path and the fixed record key, and no
\* step of any run, successful or failed, creates or modifies a file.
C9_NoFileWritten ==
    /\ [][fs' = fs]_vars
    /\ [](csv_file \in {Unbound, "cube_full.csv"} /\ trade \in {Unbound, "833397AI"})
    /\ [](\A i \in DOMAIN calls :
            /\ calls[i].fn = "NpvCube" => calls[i].args = <<"cube_full.csv">>
            /\ calls[i].fn = "plot_density" => calls[i].args[1] = "833397AI")
C9_Witness == status = "exited" /\ FileValid /\ DOMAIN fs = {CsvFileName}

\* C10: when the lookup of the record key fails, the figure and the surface
\* already exist; when the load fails (missing or malformed file) neither
\* exists; in both cases no window is or has been displayed.
C10_FailurePoints ==
    /\ error = "KeyError" =>
          (fig # 0 /\ fig \in figures /\ ax # 0 /\ Len(axes) = 1
           /\ CallsTo("figure") = 1 /\ CallsTo("add_subplot") = 1)
    /\ error \in {"FileNotFoundError", "ParserError"} =>
          (fig = 0 /\ figures = {} /\ ax = 0 /\ axes = <<>>
           /\ CallsTo("figure") = 0 /\ CallsTo("add_subplot") = 0)
    /\ status = "failed" => (shown = {} /\ ~windowOpen /\ CallsTo("show") = 0)
C10_Witness == error = "KeyError" /\ status = "failed" /\ fig # 0 /\ ax # 0
====
